---- MODULE Spec2Model ----
(***************************************************************************)
(* json_pusher_go: the bulk HTTP submission tool of src/main.go.           *)
(*                                                                         *)
(* src/main.go holds the two programs of the repository one after the      *)
(* other: the network-login program (lines 1-201) and the token-file       *)
(* program (lines 203-364).  They share the dispatch loop; env.variant     *)
(* says which one runs.                                                    *)
(*                                                                         *)
(* The state is main's program counter and locals, the json.Decoder's      *)
(* fields, the WaitGroup counter, the semaphore channel's length, the two  *)
(* atomic counters and the bag of live goroutines.  The command line, the  *)
(* files, the login service and the target service are the environment,    *)
(* fixed in Init.                                                          *)
(***************************************************************************)
EXTENDS Integers, Sequences, FiniteSets, Bags, TLC

VARIABLES
    env,            \* the environment of the run (command line, files, services)
    pc,             \* main's position
    exitCode,       \* -1 while running, else the process's exit code
    printed,        \* the kinds of message written to standard output
    summary,        \* the counters as printed by the summary (lines 85-86)
    config,         \* main's config
    bearerToken,    \* main's bearerToken
    loginCalls,     \* POSTs made to /users/login
    tokenReads,     \* reads of the token file
    inputOpens,     \* os.Open calls on the input file
    scanp,          \* decoder: index of the next unread element
    tokenState,     \* decoder: tokenState
    decErr,         \* decoder: err (sticky)
    item,           \* main's item, the element just decoded
    decodeErrs,     \* "Error decoding item" lines printed (saturates)
    decoded,        \* elements Decode returned without error, in order
    wg,             \* the WaitGroup's counter
    semaphore,      \* len(semaphore): tickets held
    successCount,
    failCount,
    tasks,          \* the live goroutines: a bag of [pc, data, r]
    launched,       \* data of the goroutines started, in order
    httpCalls       \* the requests handed to client.Do: a bag

vars == <<env, pc, exitCode, printed, summary, config, bearerToken, loginCalls,
          tokenReads, inputOpens, scanp, tokenState, decErr, item, decodeErrs, decoded, wg,
          semaphore, successCount, failCount, tasks, launched, httpCalls>>

----------------------------------------------------------------------------
(* Bounds of the model *)

\* longest input document whose elements are drawn freely
MaxLen == 3
\* longest input document of identical elements (exceeds the ticket pool)
MaxLong == 12
\* "Error decoding item" lines counted before the count saturates
MaxDecodeErrs == 2

(* Program constants *)

\* make(chan struct{}, 10)
SemCap == 10
\* http.StatusOK
StatusOK == 200

----------------------------------------------------------------------------
(* The environment *)

Payloads == {"p1", "p2"}
\* an element the decoder cannot scan (a syntax error inside the array)
Malformed == "bad"
Elements == Payloads \cup {Malformed}

\* what follows the leading white space of the input document
Heads == {"array", "object", "scalar", "garbage", "empty"}

Statuses == {199, 200, 299, 300, 500}

\* what the target does with one request: a transport error, a body that
\* cannot be read, or a response with a status code
Responses ==
    {[err |-> "do", status |-> 0], [err |-> "read", status |-> 200]}
        \cup {[err |-> "none", status |-> s] : s \in Statuses}

OkResponse == [err |-> "none", status |-> 200]
FailResponse == [err |-> "none", status |-> 500]

\* what the login service does with the POST
LoginReplies ==
    {[err |-> "do", status |-> 0, body |-> "undecodable", token |-> <<>>],
     [err |-> "none", status |-> 401, body |-> "json", token |-> <<"t">>],
     [err |-> "none", status |-> 201, body |-> "json", token |-> <<"t">>],
     [err |-> "none", status |-> 200, body |-> "undecodable", token |-> <<>>],
     [err |-> "none", status |-> 200, body |-> "json", token |-> <<>>],
     [err |-> "none", status |-> 200, body |-> "json", token |-> <<"t">>]}

GoodLogin == [err |-> "none", status |-> 200, body |-> "json", token |-> <<"t">>]

\* the token file: unreadable, or its characters
TokenFiles ==
    {[readable |-> FALSE, bytes |-> <<>>],
     [readable |-> TRUE, bytes |-> <<>>],
     [readable |-> TRUE, bytes |-> <<"\n">>],
     [readable |-> TRUE, bytes |-> <<"t">>],
     [readable |-> TRUE, bytes |-> <<" ", "t", "\n">>]}

GoodTokenFile == [readable |-> TRUE, bytes |-> <<" ", "t", "\n">>]

SeqsUpTo(S, n) == UNION {[1..k -> S] : k \in 0..n}


\* the command line: how flag.Parse fares on it, and the flags' values
\* ("" is a flag left out); the login program has no -token flag and the
\* token-file program no -email and -password
Methods == {"", "POST", "PUT", "GET"}
Urls == {"", "http://h/ep", ":bad"}

ArgsOf(variant) ==
    [syntax : {"ok", "help", "undefined"},
     method : Methods,
     email : IF variant = "login" THEN {"", "e"} ELSE {""},
     password : IF variant = "login" THEN {"", "pw"} ELSE {""},
     token : IF variant = "login" THEN {""} ELSE {"", "tok.txt"},
     url : Urls,
     input : {"", "in.json"}]

GoodArgs(variant) ==
    [syntax |-> "ok", method |-> "POST",
     email |-> IF variant = "login" THEN "e" ELSE "",
     password |-> IF variant = "login" THEN "pw" ELSE "",
     token |-> IF variant = "login" THEN "" ELSE "tok.txt",
     url |-> "http://h/ep", input |-> "in.json"]

Variants == {"login", "tokenfile"}

\* runs that differ in the command line, the credentials, the input file
\* and the head of the document, over one two-element document
ConfigRuns ==
    UNION {[variant : {v}, args : ArgsOf(v), login : LoginReplies,
            tokenFile : TokenFiles, fileOpens : BOOLEAN, head : Heads,
            elems : {<<"p1", "p2">>},
            stub : {[p \in Payloads |->
                       IF p = "p1" THEN OkResponse ELSE FailResponse]}]
           : v \in Variants}

\* a run's environment is relevant only as far as the run reads it: keep one
\* representative of what is never read
Relevant(e) ==
    /\ e.variant = "login" => e.tokenFile = GoodTokenFile
    /\ e.variant = "tokenfile" => e.login = GoodLogin
    /\ e.args # GoodArgs(e.variant) =>
          /\ e.login = GoodLogin /\ e.tokenFile = GoodTokenFile
          /\ e.fileOpens /\ e.head = "array"
    /\ (e.login # GoodLogin \/ e.tokenFile # GoodTokenFile) =>
          e.fileOpens /\ e.head = "array"
    /\ ~e.fileOpens => e.head = "array"

\* runs that differ in the document and in what the target answers
DispatchRuns ==
    UNION {[variant : {v}, args : {GoodArgs(v)}, login : {GoodLogin},
            tokenFile : {GoodTokenFile}, fileOpens : {TRUE},
            head : {"array"},
            elems : SeqsUpTo(Elements, MaxLen),
            stub : {[p \in Payloads |-> IF p = "p1" THEN r ELSE q]
                      : r \in Responses, q \in {OkResponse, FailResponse}}]
           : v \in Variants}

\* runs over a document with more elements than there are tickets
LongRuns ==
    UNION {[variant : {v}, args : {GoodArgs(v)}, login : {GoodLogin},
            tokenFile : {GoodTokenFile}, fileOpens : {TRUE},
            head : {"array"},
            elems : {[i \in 1..n |-> "p1"] : n \in (SemCap + 1)..MaxLong},
            stub : {[p \in Payloads |-> r] : r \in {OkResponse, FailResponse}}]
           : v \in Variants}

Runs == {e \in ConfigRuns : Relevant(e)} \cup DispatchRuns \cup LongRuns

----------------------------------------------------------------------------
(* The pure functions of the program *)

\* Config{}
ZeroConfig ==
    [Method |-> "", Email |-> "", Password |-> "", TokenFile |-> "",
     EndpointURL |-> "", InputFile |-> ""]

\* flag.Parse on the default flag set (flag.ExitOnError): {-1} when it
\* returns, else the codes it may exit with (-h exits with 0 or, on older
\* toolchains, 2)
flagParse(args) ==
    CASE args.syntax = "help" -> {0, 2}
      [] args.syntax = "undefined" -> {2}
      [] OTHER -> {-1}

\* the names appended to missingParams, in the order of the checks
missingParams(variant, c) ==
    (IF c.Method = "" THEN <<"method">> ELSE <<>>)
    \o (IF variant = "login" /\ c.Email = "" THEN <<"email">> ELSE <<>>)
    \o (IF variant = "login" /\ c.Password = "" THEN <<"password">> ELSE <<>>)
    \o (IF variant = "tokenfile" /\ c.TokenFile = "" THEN <<"token">> ELSE <<>>)
    \o (IF c.EndpointURL = "" THEN <<"url">> ELSE <<>>)
    \o (IF c.InputFile = "" THEN <<"input">> ELSE <<>>)

\* mutant: the method is not checked against POST and PUT
parseFlagsAnyMethod(variant, args) ==
    LET c == [Method |-> args.method, Email |-> args.email,
              Password |-> args.password, TokenFile |-> args.token,
              EndpointURL |-> args.url, InputFile |-> args.input]
    IN  IF Len(missingParams(variant, c)) > 0
        THEN [config |-> ZeroConfig, err |-> "missing required parameters"]
        ELSE [config |-> c, err |-> "nil"]

\* parseFlags after flag.Parse has returned: (Config, error)
parseFlags(variant, args) ==
    LET c == [Method |-> args.method, Email |-> args.email,
              Password |-> args.password, TokenFile |-> args.token,
              EndpointURL |-> args.url, InputFile |-> args.input]
    IN  IF c.Method # "" /\ c.Method # "POST" /\ c.Method # "PUT"
        THEN [config |-> ZeroConfig, err |-> "invalid method"]
        ELSE IF Len(missingParams(variant, c)) > 0
        THEN [config |-> ZeroConfig, err |-> "missing required parameters"]
        ELSE [config |-> c, err |-> "nil"]

\* url.Parse, as far as it fails
urlParses(u) == u # ":bad"

\* mutant: the status code of the login response is not checked
loginAnyStatus(endpointURL, reply) ==
    IF ~urlParses(endpointURL)
    THEN [token |-> <<>>, err |-> "error parsing endpoint URL", posted |-> FALSE]
    ELSE IF reply.err # "none"
    THEN [token |-> <<>>, err |-> "error sending login request", posted |-> TRUE]
    ELSE IF reply.body # "json"
    THEN [token |-> <<>>, err |-> "error decoding login response", posted |-> TRUE]
    ELSE [token |-> reply.token, err |-> "nil", posted |-> TRUE]

\* login: (token, error) and whether the POST was made
login(endpointURL, reply) ==
    IF ~urlParses(endpointURL)
    THEN [token |-> <<>>, err |-> "error parsing endpoint URL", posted |-> FALSE]
    ELSE IF reply.err # "none"
    THEN [token |-> <<>>, err |-> "error sending login request", posted |-> TRUE]
    ELSE IF reply.status # StatusOK
    THEN [token |-> <<>>, err |-> "login failed with status code", posted |-> TRUE]
    ELSE IF reply.body # "json"
    THEN [token |-> <<>>, err |-> "error decoding login response", posted |-> TRUE]
    ELSE [token |-> reply.token, err |-> "nil", posted |-> TRUE]

isSpace(ch) == ch \in {" ", "\n", "\t", "\r"}

RECURSIVE TrimLeft(_)
TrimLeft(s) ==
    IF s # <<>> /\ isSpace(Head(s)) THEN TrimLeft(Tail(s)) ELSE s

RECURSIVE TrimRight(_)
TrimRight(s) ==
    IF s # <<>> /\ isSpace(s[Len(s)])
    THEN TrimRight(SubSeq(s, 1, Len(s) - 1)) ELSE s

\* strings.TrimSpace
TrimSpace(s) == TrimRight(TrimLeft(s))

\* readTokenFile: (token, error)
readTokenFile(file) ==
    IF ~file.readable
    THEN [token |-> <<>>, err |-> "read error"]
    ELSE [token |-> TrimSpace(file.bytes), err |-> "nil"]

\* mutant: the Authorization header is set whatever the token
newRequestAlwaysAuth(data, token, c) ==
    [method |-> c.Method, url |-> c.EndpointURL, body |-> data,
     contentType |-> "application/json",
     authorization |-> <<"Bearer ">> \o token]

\* the request sendRequest builds: http.NewRequest and the two headers
newRequest(data, token, c) ==
    [method |-> c.Method, url |-> c.EndpointURL, body |-> data,
     contentType |-> "application/json",
     authorization |-> IF token # <<>> THEN <<"Bearer ">> \o token ELSE <<>>]

\* mutant: the upper end of the status range is included
sendRequestUpTo300(data, token, c, resp) ==
    IF ~urlParses(c.EndpointURL) THEN FALSE
    ELSE IF resp.err = "do" THEN FALSE
    ELSE IF resp.err = "read" THEN FALSE
    ELSE resp.status >= 200 /\ resp.status <= 300

\* sendRequest's result, given what the target does with the request
sendRequest(data, token, c, resp) ==
    IF ~urlParses(c.EndpointURL) THEN FALSE
    ELSE IF resp.err = "do" THEN FALSE
    ELSE IF resp.err = "read" THEN FALSE
    ELSE resp.status >= 200 /\ resp.status < 300


----------------------------------------------------------------------------
(* encoding/json's Decoder, as main uses it.  The document is its head     *)
(* (the first token) and the elements after it; scanp indexes the next     *)
(* element.  A scan error is kept in dec.err and returned by every later   *)
(* Decode, and no failing Decode moves scanp.                              *)

\* (*Decoder).tokenValueAllowed
tokenValueAllowed(ts) ==
    ts \in {"tokenTopValue", "tokenArrayStart", "tokenArrayValue", "tokenObjectValue"}

\* (*Decoder).tokenPrepareForDecode: the comma before an array element
tokenPrepareForDecode(ts) ==
    IF ts = "tokenArrayComma" THEN "tokenArrayValue" ELSE ts

\* (*Decoder).tokenValueEnd
tokenValueEnd(ts) ==
    IF ts \in {"tokenArrayStart", "tokenArrayValue"} THEN "tokenArrayComma" ELSE ts

\* decoder.Token() on the head of the document: the error, and the state
\* it leaves the decoder in
decoderToken(head) ==
    CASE head = "array" -> [err |-> "nil", tokenState |-> "tokenArrayStart"]
      [] head = "object" -> [err |-> "nil", tokenState |-> "tokenObjectStart"]
      [] head = "scalar" -> [err |-> "nil", tokenState |-> "tokenTopValue"]
      [] head = "empty" -> [err |-> "EOF", tokenState |-> "tokenTopValue"]
      [] OTHER -> [err |-> "syntax error", tokenState |-> "tokenTopValue"]

\* decoder.More(): the next non-space byte exists and closes nothing
decoderMore(elems, p) == p <= Len(elems)

\* decoder.Decode(&item): the error, the element read, and the decoder after it
decoderDecode(elems, p, ts, derr) ==
    IF derr
    THEN [err |-> "syntax error", item |-> "", scanp |-> p,
          tokenState |-> ts, decErr |-> TRUE]
    ELSE IF ~tokenValueAllowed(tokenPrepareForDecode(ts))
    THEN [err |-> "not at beginning of value", item |-> "", scanp |-> p,
          tokenState |-> ts, decErr |-> FALSE]
    ELSE IF elems[p] = Malformed
    THEN [err |-> "syntax error", item |-> "", scanp |-> p,
          tokenState |-> tokenPrepareForDecode(ts), decErr |-> TRUE]
    ELSE [err |-> "nil", item |-> elems[p], scanp |-> p + 1,
          tokenState |-> tokenValueEnd(tokenPrepareForDecode(ts)),
          decErr |-> FALSE]

----------------------------------------------------------------------------
(* The run *)

Init ==
    /\ env \in Runs
    /\ pc = "parseFlags"
    /\ exitCode = -1
    /\ printed = {}
    /\ summary = [printed |-> FALSE, success |-> 0, fail |-> 0]
    /\ config = ZeroConfig
    /\ bearerToken = <<>>
    /\ loginCalls = 0
    /\ tokenReads = 0
    /\ inputOpens = 0
    /\ scanp = 1
    /\ tokenState = "tokenTopValue"
    /\ decErr = FALSE
    /\ item = ""
    /\ decodeErrs = 0
    /\ decoded = <<>>
    /\ wg = 0
    /\ semaphore = 0
    /\ successCount = 0
    /\ failCount = 0
    /\ tasks = EmptyBag
    /\ launched = <<>>
    /\ httpCalls = EmptyBag

decoderVars == <<scanp, tokenState, decErr, item, decodeErrs, decoded>>
dispatchVars == <<wg, semaphore, successCount, failCount, tasks, launched, httpCalls>>
credVars == <<bearerToken, loginCalls, tokenReads>>

\* main, lines 30-35: parseFlags and the exit on its error
ParseFlags ==
    /\ pc = "parseFlags"
    /\ \E code \in flagParse(env.args) :
       LET r == parseFlags(env.variant, env.args)
       IN  IF code # -1
           THEN /\ pc' = "exited"
                /\ exitCode' = code
                /\ printed' = printed \cup
                       (IF env.args.syntax = "undefined"
                        THEN {"flag provided but not defined", "usage"}
                        ELSE {"usage"})
                /\ config' = config
           ELSE IF r.err # "nil"
           THEN /\ pc' = "exited"
                /\ exitCode' = 1
                /\ printed' = printed \cup {r.err, "usage"}
                /\ config' = r.config
           ELSE /\ pc' = "credentials"
                /\ exitCode' = exitCode
                /\ printed' = printed
                /\ config' = r.config
    /\ UNCHANGED <<env, summary, credVars, inputOpens, decoderVars, dispatchVars>>

\* main, lines 37-41: login and the return on its error
Login ==
    /\ pc = "credentials"
    /\ env.variant = "login"
    /\ LET r == login(config.EndpointURL, env.login)
       IN  /\ loginCalls' = loginCalls + (IF r.posted THEN 1 ELSE 0)
           /\ bearerToken' = r.token
           /\ IF r.err # "nil"
              THEN /\ pc' = "aborted"
                   /\ exitCode' = 0
                   /\ printed' = printed \cup {"Error logging in"}
              ELSE /\ pc' = "open"
                   /\ UNCHANGED <<exitCode, printed>>
    /\ UNCHANGED <<env, summary, config, tokenReads, inputOpens, decoderVars,
                   dispatchVars>>

\* main, lines 233-237: readTokenFile and the return on its error
ReadTokenFile ==
    /\ pc = "credentials"
    /\ env.variant = "tokenfile"
    /\ LET r == readTokenFile(env.tokenFile)
       IN  /\ tokenReads' = tokenReads + 1
           /\ bearerToken' = r.token
           /\ IF r.err # "nil"
              THEN /\ pc' = "aborted"
                   /\ exitCode' = 0
                   /\ printed' = printed \cup {"Error reading bearer token file"}
              ELSE /\ pc' = "open"
                   /\ UNCHANGED <<exitCode, printed>>
    /\ UNCHANGED <<env, summary, config, loginCalls, inputOpens, decoderVars,
                   dispatchVars>>

\* main, lines 43-48: os.Open(config.InputFile)
OpenFile ==
    /\ pc = "open"
    /\ inputOpens' = inputOpens + 1
    /\ IF ~env.fileOpens
       THEN /\ pc' = "aborted"
            /\ exitCode' = 0
            /\ printed' = printed \cup {"Error opening file"}
       ELSE /\ pc' = "token"
            /\ UNCHANGED <<exitCode, printed>>
    /\ UNCHANGED <<env, summary, config, credVars, decoderVars, dispatchVars>>

\* main, lines 50-56: the decoder and its first Token()
ReadOpeningToken ==
    /\ pc = "token"
    /\ LET r == decoderToken(env.head)
       IN  /\ tokenState' = r.tokenState
           /\ IF r.err # "nil"
              THEN /\ pc' = "aborted"
                   /\ exitCode' = 0
                   /\ printed' = printed \cup {"Error reading opening bracket"}
              ELSE /\ pc' = "more"
                   /\ UNCHANGED <<exitCode, printed>>
    /\ UNCHANGED <<env, summary, config, credVars, inputOpens, scanp, decErr,
                   item, decodeErrs, decoded, dispatchVars>>

\* main, line 62: for decoder.More()
More ==
    /\ pc = "more"
    /\ pc' = IF decoderMore(env.elems, scanp) THEN "decode" ELSE "wait"
    /\ UNCHANGED <<env, exitCode, printed, summary, config, credVars, inputOpens,
                   decoderVars, dispatchVars>>

\* main, lines 63-67: Decode(&item), and continue on its error
Decode ==
    /\ pc = "decode"
    /\ LET r == decoderDecode(env.elems, scanp, tokenState, decErr)
       IN  /\ scanp' = r.scanp
           /\ tokenState' = r.tokenState
           /\ decErr' = r.decErr
           /\ item' = r.item
           /\ IF r.err # "nil"
              THEN /\ printed' = printed \cup {"Error decoding item"}
                   /\ decodeErrs' = IF decodeErrs < MaxDecodeErrs
                                    THEN decodeErrs + 1 ELSE decodeErrs
                   /\ decoded' = decoded
                   /\ pc' = "more"
              ELSE /\ printed' = printed
                   /\ decodeErrs' = decodeErrs
                   /\ decoded' = Append(decoded, r.item)
                   /\ pc' = "wgadd"
    /\ UNCHANGED <<env, exitCode, summary, config, credVars, inputOpens, dispatchVars>>

\* main, line 69: wg.Add(1)
WgAdd ==
    /\ pc = "wgadd"
    /\ wg' = wg + 1
    /\ pc' = "acquire"
    /\ UNCHANGED <<env, exitCode, printed, summary, config, credVars, inputOpens,
                   decoderVars, semaphore, successCount, failCount, tasks,
                   launched, httpCalls>>

\* mutant: the send never blocks (an unbuffered-size or missing semaphore)
CanAcquireAlways == TRUE

\* a send on the semaphore channel proceeds while its buffer is not full
CanAcquire == semaphore < SemCap

\* main, line 70: semaphore <- struct{}{}
Acquire ==
    /\ pc = "acquire"
    /\ CanAcquire
    /\ semaphore' = semaphore + 1
    /\ pc' = "go"
    /\ UNCHANGED <<env, exitCode, printed, summary, config, credVars, inputOpens,
                   decoderVars, wg, successCount, failCount, tasks, launched,
                   httpCalls>>

\* mutant: the goroutine reads the loop's variable instead of its own copy
\* of the element, and finds the last element there
NewTaskShared(data) ==
    [pc |-> "send", data |-> env.elems[Len(env.elems)], r |-> FALSE]

\* the goroutine started for data, at the call of sendRequest
NewTask(data) == [pc |-> "send", data |-> data, r |-> FALSE]

\* main, lines 71 and 79: go func(data json.RawMessage) {...}(item)
Go ==
    /\ pc = "go"
    /\ tasks' = tasks (+) SetToBag({NewTask(item)})
    /\ launched' = Append(launched, NewTask(item).data)
    /\ pc' = "more"
    /\ UNCHANGED <<env, exitCode, printed, summary, config, credVars, inputOpens,
                   decoderVars, wg, semaphore, successCount, failCount, httpCalls>>

\* mutant: main does not wait for the goroutines
WaitReturnsAtOnce == TRUE

\* wg.Wait() returns when the counter is zero
WaitReturns == wg = 0

\* main, line 82: wg.Wait()
Wait ==
    /\ pc = "wait"
    /\ WaitReturns
    /\ pc' = "summary"
    /\ UNCHANGED <<env, exitCode, printed, summary, config, credVars, inputOpens,
                   decoderVars, dispatchVars>>

\* main, lines 84-87: the summary, and main returns
Summary ==
    /\ pc = "summary"
    /\ summary' = [printed |-> TRUE, success |-> successCount, fail |-> failCount]
    /\ printed' = printed \cup {"Execution Summary"}
    /\ pc' = "done"
    /\ exitCode' = 0
    /\ UNCHANGED <<env, config, credVars, inputOpens, decoderVars, dispatchVars>>

mainVars == <<env, pc, exitCode, printed, summary, config, credVars, inputOpens,
              decoderVars>>

\* the process is over: main has returned or os.Exit was called
Over == pc \in {"done", "aborted", "exited"}

\* task t moves on to u
Step(t, u) == (tasks (-) SetToBag({t})) (+) SetToBag({u})

\* mutant: a request that fails is sent once more
TaskSendRequestRetry(t) ==
    /\ ~Over
    /\ t.pc = "send"
    /\ LET resp == env.stub[t.data]
           req == newRequest(t.data, bearerToken, config)
           ok == sendRequest(t.data, bearerToken, config, resp)
       IN  /\ httpCalls' = IF urlParses(config.EndpointURL)
                           THEN httpCalls (+) SetToBag({req})
                                   (+) (IF ok THEN EmptyBag ELSE SetToBag({req}))
                           ELSE httpCalls
           /\ tasks' = Step(t, [t EXCEPT !.pc = "count", !.r = ok])
    /\ UNCHANGED <<mainVars, wg, semaphore, successCount, failCount, launched>>

\* goroutine, line 74: the call of sendRequest, from http.NewRequest to its return
TaskSendRequest(t) ==
    /\ ~Over
    /\ t.pc = "send"
    /\ LET resp == env.stub[t.data]
           req == newRequest(t.data, bearerToken, config)
       IN  /\ httpCalls' = IF urlParses(config.EndpointURL)
                           THEN httpCalls (+) SetToBag({req}) ELSE httpCalls
           /\ tasks' = Step(t, [t EXCEPT !.pc = "count",
                                  !.r = sendRequest(t.data, bearerToken, config, resp)])
    /\ UNCHANGED <<mainVars, wg, semaphore, successCount, failCount, launched>>

\* mutant: the else is missing, and a success is counted as a failure too
TaskCountBoth(t) ==
    /\ ~Over
    /\ t.pc = "count"
    /\ successCount' = successCount + (IF t.r THEN 1 ELSE 0)
    /\ failCount' = failCount + 1
    /\ tasks' = Step(t, [t EXCEPT !.pc = "release"])
    /\ UNCHANGED <<mainVars, wg, semaphore, launched, httpCalls>>

\* mutant: the branches of the if are exchanged
TaskCountSwapped(t) ==
    /\ ~Over
    /\ t.pc = "count"
    /\ IF t.r
       THEN failCount' = failCount + 1 /\ successCount' = successCount
       ELSE successCount' = successCount + 1 /\ failCount' = failCount
    /\ tasks' = Step(t, [t EXCEPT !.pc = "release"])
    /\ UNCHANGED <<mainVars, wg, semaphore, launched, httpCalls>>

\* mutant: a failed call is not counted
TaskCountSuccessOnly(t) ==
    /\ ~Over
    /\ t.pc = "count"
    /\ successCount' = successCount + (IF t.r THEN 1 ELSE 0)
    /\ failCount' = failCount
    /\ tasks' = Step(t, [t EXCEPT !.pc = "release"])
    /\ UNCHANGED <<mainVars, wg, semaphore, launched, httpCalls>>

\* goroutine, lines 74-78: atomic.AddInt64 on one of the two counters
TaskCount(t) ==
    /\ ~Over
    /\ t.pc = "count"
    /\ IF t.r
       THEN successCount' = successCount + 1 /\ failCount' = failCount
       ELSE failCount' = failCount + 1 /\ successCount' = successCount
    /\ tasks' = Step(t, [t EXCEPT !.pc = "release"])
    /\ UNCHANGED <<mainVars, wg, semaphore, launched, httpCalls>>

\* mutant: the ticket is given back on the success path only
TaskReleaseOnSuccessOnly(t) ==
    /\ ~Over
    /\ t.pc = "release"
    /\ semaphore' = IF t.r THEN semaphore - 1 ELSE semaphore
    /\ tasks' = Step(t, [t EXCEPT !.pc = "wgdone"])
    /\ UNCHANGED <<mainVars, wg, successCount, failCount, launched, httpCalls>>

\* goroutine, line 73: the deferred <-semaphore
TaskRelease(t) ==
    /\ ~Over
    /\ t.pc = "release"
    /\ semaphore' = semaphore - 1
    /\ tasks' = Step(t, [t EXCEPT !.pc = "wgdone"])
    /\ UNCHANGED <<mainVars, wg, successCount, failCount, launched, httpCalls>>

\* goroutine, line 72: the deferred wg.Done(), and the goroutine ends
TaskDone(t) ==
    /\ ~Over
    /\ t.pc = "wgdone"
    /\ wg' = wg - 1
    /\ tasks' = tasks (-) SetToBag({t})
    /\ UNCHANGED <<mainVars, semaphore, successCount, failCount, launched, httpCalls>>

Next ==
    \/ ParseFlags
    \/ Login
    \/ ReadTokenFile
    \/ OpenFile
    \/ ReadOpeningToken
    \/ More
    \/ Decode
    \/ WgAdd
    \/ Acquire
    \/ Go
    \/ Wait
    \/ Summary
    \/ \E t \in BagToSet(tasks) : TaskSendRequest(t)
    \/ \E t \in BagToSet(tasks) : TaskCount(t)
    \/ \E t \in BagToSet(tasks) : TaskRelease(t)
    \/ \E t \in BagToSet(tasks) : TaskDone(t)

Spec == Init /\ [][Next]_vars

\* the steps of main
MainStep ==
    \/ ParseFlags \/ Login \/ ReadTokenFile \/ OpenFile \/ ReadOpeningToken
    \/ More \/ Decode \/ WgAdd \/ Acquire \/ Go \/ Wait \/ Summary

\* main keeps running while it can, every HTTP call returns, and the
\* scheduler lets every goroutine that can run take its next step
FairSpec ==
    /\ Init /\ [][Next]_vars
    /\ WF_vars(MainStep)
    /\ WF_vars(\E t \in BagToSet(tasks) : TaskSendRequest(t))
    /\ WF_vars(\E t \in BagToSet(tasks) : TaskCount(t))
    /\ WF_vars(\E t \in BagToSet(tasks) : TaskRelease(t))
    /\ WF_vars(\E t \in BagToSet(tasks) : TaskDone(t))


----------------------------------------------------------------------------
(* Properties *)

\* the number of goroutines whose pc is in S
TasksAt(S) ==
    BagCardinality([t \in {x \in BagToSet(tasks) : x.pc \in S} |-> tasks[t]])

\* the number of indices of sequence q whose entry satisfies Test
CountIn(q, Test(_)) == Cardinality({i \in 1..Len(q) : Test(q[i])})

\* the response is a success: no error and a status code in [200, 300)
Is2xx(resp) == resp.err = "none" /\ resp.status >= 200 /\ resp.status < 300

\* the call for payload p succeeds in this run
CallSucceeds(p) == urlParses(config.EndpointURL) /\ Is2xx(env.stub[p])

\* C1: in every reachable state at most 10 tickets are held and at most 10
\* sendRequest invocations are active, whatever the length of the input.
C1_AtMostTenInFlight ==
    /\ semaphore <= 10
    /\ TasksAt({"send"}) <= 10
    /\ TasksAt({"send", "count", "release"}) <= semaphore

\* C1 witness: all 10 tickets are held by active sendRequest invocations and
\* the dispatch loop is blocked acquiring one for a further element.
C1_Witness ==
    /\ pc = "acquire"
    /\ semaphore = 10
    /\ TasksAt({"send"}) = 10
    /\ Len(env.elems) > 10

\* C2: when the summary is printed, successCount + failCount is exactly the
\* number of elements that decoded successfully.
C2_SummaryCountsDecoded ==
    summary.printed =>
        /\ summary.success + summary.fail = Len(decoded)
        /\ successCount + failCount = Len(decoded)

\* C2 witness: a summary over three decoded elements, with successes and
\* failures among them.
C2_Witness ==
    /\ summary.printed
    /\ Len(decoded) = 3
    /\ summary.success >= 1
    /\ summary.fail >= 1

\* C3: the counters are read for the summary only after every launched task
\* has completed, so N elements whose calls all succeed are reported as N
\* successes and 0 failures.
C3_SummaryAfterDrain ==
    /\ pc \in {"summary", "done"} =>
          /\ tasks = EmptyBag
          /\ wg = 0
          /\ successCount + failCount = Len(launched)
    /\ (/\ summary.printed
        /\ \A i \in 1..Len(env.elems) :
              env.elems[i] \in Payloads /\ CallSucceeds(env.elems[i]))
          => summary.success = Len(env.elems) /\ summary.fail = 0

\* C3 witness: a summary of N successes for a document of N > 10 elements.
C3_Witness ==
    /\ summary.printed
    /\ Len(env.elems) > 10
    /\ summary.success = Len(env.elems)
    /\ summary.fail = 0


\* the number of goroutines that satisfy Test
TasksWhere(Test(_)) ==
    BagCardinality([t \in {x \in BagToSet(tasks) : Test(x)} |-> tasks[t]])

\* the number of requests handed to client.Do whose body is p
CallsOf(p) ==
    BagCardinality([c \in {x \in BagToSet(httpCalls) : x.body = p} |-> httpCalls[c]])

\* the indices of the malformed elements of the document
MalformedAt == {i \in 1..Len(env.elems) : env.elems[i] = Malformed}

\* C4 (as claimed): in an array with exactly one malformed element, once that
\* element's decode error has been reported the loop has skipped the element
\* -- the decoder stands after it and the error is reported once -- and the
\* run, when over, has printed the summary after dispatching the other N-1.
C4_SkipsMalformedElement ==
    (env.head = "array" /\ Cardinality(MalformedAt) = 1) =>
        /\ \A i \in MalformedAt : decodeErrs > 0 => scanp > i /\ decodeErrs = 1
        /\ pc = "done" => Len(launched) = Len(env.elems) - 1

\* C5: the final counters are a function of the input alone: whatever the
\* interleaving, the summary reports as successes the decoded elements whose
\* call succeeds and as failures those whose call fails.
C5_FinalCountersDeterministic ==
    summary.printed =>
        /\ summary.success = CountIn(decoded, CallSucceeds)
        /\ summary.fail = CountIn(decoded, LAMBDA p : ~CallSucceeds(p))

\* C5 witness: a summary of one success and two failures for the document
\* p1, p2, p1 whose p1 calls fail and whose p2 call succeeds.
C5_Witness ==
    /\ summary.printed
    /\ decoded = <<"p1", "p2", "p1">>
    /\ ~CallSucceeds("p1") /\ CallSucceeds("p2")
    /\ summary.success = 1 /\ summary.fail = 2

\* credential acquisition fails in this run
CredentialsFail ==
    \/ /\ env.variant = "login"
       /\ \/ ~urlParses(env.args.url)
          \/ env.login.err # "none"
          \/ env.login.status # 200
          \/ env.login.body # "json"
    \/ /\ env.variant = "tokenfile"
       /\ ~env.tokenFile.readable

\* nothing of the dispatch has happened
NothingDispatched ==
    /\ decoded = <<>> /\ launched = <<>> /\ tasks = EmptyBag
    /\ httpCalls = EmptyBag /\ wg = 0 /\ semaphore = 0
    /\ successCount = 0 /\ failCount = 0 /\ ~summary.printed

\* C6: the steps run in the order validate, credentials, open, dispatch,
\* report, and a failure to acquire the credentials or to open the input
\* file aborts the run with a printed error and no request dispatched.
C6_FailFastBeforeDispatch ==
    /\ pc = "aborted" =>
          /\ NothingDispatched
          /\ exitCode = 0
          /\ printed \cap {"Error logging in", "Error reading bearer token file",
                           "Error opening file", "Error reading opening bracket"} # {}
    /\ (pc \notin {"parseFlags", "exited", "credentials"} /\ CredentialsFail) =>
          /\ pc = "aborted"
          /\ inputOpens = 0
          /\ printed \cap {"Error logging in", "Error reading bearer token file"} # {}
    /\ (pc \notin {"parseFlags", "exited", "credentials", "open"} /\ ~env.fileOpens) =>
          /\ pc = "aborted"
          /\ "Error opening file" \in printed
    /\ pc \in {"parseFlags", "exited"} =>
          loginCalls = 0 /\ tokenReads = 0 /\ inputOpens = 0 /\ NothingDispatched
    /\ pc \in {"credentials", "open", "token"} => NothingDispatched
    /\ pc = "credentials" => loginCalls = 0 /\ tokenReads = 0 /\ inputOpens = 0
    /\ inputOpens > 0 => loginCalls + tokenReads = 1 /\ ~CredentialsFail
    /\ ~NothingDispatched => inputOpens = 1 /\ env.fileOpens
    /\ summary.printed => pc = "done" /\ ~decoderMore(env.elems, scanp)

\* C6 witness: the login service answers 401 and the run is aborted after the
\* one login call.
C6_Witness ==
    /\ pc = "aborted"
    /\ env.variant = "login"
    /\ env.login.status = 401
    /\ loginCalls = 1
    /\ "Error logging in" \in printed

\* C7 (as claimed): when the document does not begin with an opening array
\* delimiter, reading the first token fails: the run is aborted there, with
\* zero requests sent.
C7_NonArrayAborts ==
    (env.head # "array"
        /\ pc \notin {"parseFlags", "exited", "credentials", "open", "token"}) =>
        /\ pc = "aborted"
        /\ httpCalls = EmptyBag

\* every required flag is given and the method is POST or PUT
ValidFlags ==
    /\ env.args.method \in {"POST", "PUT"}
    /\ env.args.url # "" /\ env.args.input # ""
    /\ env.variant = "login" => env.args.email # "" /\ env.args.password # ""
    /\ env.variant = "tokenfile" => env.args.token # ""

\* no login attempt, file read or request has been made
NoEffects ==
    loginCalls = 0 /\ tokenReads = 0 /\ inputOpens = 0 /\ NothingDispatched

C9_SuccessIff2xx ==
    \A t \in BagToSet(tasks) :
        t.pc # "send" =>
            (t.r <=> /\ urlParses(config.EndpointURL)
                     /\ env.stub[t.data].err = "none"
                     /\ env.stub[t.data].status >= 200
                     /\ env.stub[t.data].status < 300)

\* C9 witness: two calls have returned, one false for a response whose
\* body could not be read, one true for a 200.
C9_Witness ==
    \E t, u \in BagToSet(tasks) :
        /\ t.pc = "count" /\ u.pc = "count"
        /\ env.stub[t.data].err = "read" /\ ~t.r
        /\ env.stub[u.data] = OkResponse /\ u.r

\* C10: every decoded element is handed to exactly one task and sent in
\* exactly one call, and a failed call adds one to failCount and keeps no
\* other element from being dispatched.
C10_OneTaskOneCallPerElement ==
    /\ Len(launched) <= Len(decoded) /\ Len(decoded) <= Len(launched) + 1
    /\ launched = SubSeq(decoded, 1, Len(launched))
    /\ pc \in {"more", "decode", "wait", "summary", "done"} => launched = decoded
    /\ \A p \in Payloads :
          CallsOf(p) =
              IF urlParses(config.EndpointURL)
              THEN CountIn(launched, LAMBDA d : d = p)
                      - TasksWhere(LAMBDA t : t.data = p /\ t.pc = "send")
              ELSE 0
    /\ failCount =
          CountIn(launched, LAMBDA d : ~CallSucceeds(d))
              - TasksWhere(LAMBDA t : ~CallSucceeds(t.data) /\ t.pc \in {"send", "count"})
    /\ successCount =
          CountIn(launched, CallSucceeds)
              - TasksWhere(LAMBDA t : CallSucceeds(t.data) /\ t.pc \in {"send", "count"})
    /\ (summary.printed /\ MalformedAt = {}) => Len(launched) = Len(env.elems)

\* C10 witness: the call for the first of three elements failed, and the
\* other two were dispatched and succeeded: three calls in all.
C10_Witness ==
    /\ summary.printed
    /\ Len(launched) = 3
    /\ ~CallSucceeds(launched[1])
    /\ CallSucceeds(launched[2]) /\ CallSucceeds(launched[3])
    /\ BagCardinality(httpCalls) = 3
    /\ failCount = 1


\* C11: elements are decoded and launched one at a time by main: the task of
\* the Nth decoded element is launched after that element is decoded and
\* before the next is, so the launches follow the order of the document,
\* whatever the order in which the tasks complete.
C11_LaunchOrderIsDocumentOrder ==
    /\ decoded = SubSeq(env.elems, 1, Len(decoded))
    /\ launched = SubSeq(env.elems, 1, Len(launched))
    /\ scanp = Len(decoded) + 1
    /\ pc = "decode" => Len(launched) = Len(decoded)
    /\ pc \in {"wgadd", "acquire", "go"} =>
          /\ Len(decoded) = Len(launched) + 1
          /\ item = env.elems[Len(decoded)]
    /\ pc \notin {"wgadd", "acquire", "go"} => Len(launched) = Len(decoded)

\* C11 witness: p1 then p2 were launched in the order of the document, and
\* the task of p2 has finished its call and its count while that of p1 is
\* still in its call.
C11_Witness ==
    /\ launched = <<"p1", "p2">>
    /\ env.elems = <<"p1", "p2">>
    /\ \E t, u \in BagToSet(tasks) :
          /\ t.data = "p1" /\ t.pc = "send"
          /\ u.data = "p2" /\ u.pc = "wgdone"


\* C12: the two counters are never negative and never decrease, a step
\* that changes them is one task adding exactly one to exactly one of them,
\* and their sum never exceeds the number of tasks launched: it is the
\* number of launched tasks that have counted.
C12_CountersMonotone ==
    /\ [](/\ successCount >= 0 /\ failCount >= 0
          /\ successCount + failCount <= Len(launched)
          /\ successCount + failCount = Len(launched) - TasksAt({"send", "count"}))
    /\ [][/\ successCount' >= successCount
          /\ failCount' >= failCount
          /\ (successCount' # successCount \/ failCount' # failCount) =>
                /\ \/ successCount' = successCount + 1 /\ failCount' = failCount
                   \/ failCount' = failCount + 1 /\ successCount' = successCount
                /\ TasksAt({"count"})' = TasksAt({"count"}) - 1
                /\ TasksAt({"release"})' = TasksAt({"release"}) + 1]_vars

\* C12 witness: one task has counted a success and one a failure while a
\* third, launched, is still in its call.
C12_Witness ==
    /\ successCount = 1 /\ failCount = 1
    /\ Len(launched) = 3
    /\ TasksAt({"send"}) = 1


\* every ticket held is held for one task that has not released it yet: a
\* task in its call, at its count or at its release, or the task main is
\* about to start
TicketsAccounted ==
    semaphore = TasksAt({"send", "count", "release"}) + (IF pc = "go" THEN 1 ELSE 0)

\* a step that gives a ticket back gives back one, and is taken by a task
\* that has counted its outcome
ReleaseFollowsCount ==
    /\ semaphore' = semaphore - 1
    /\ successCount' = successCount /\ failCount' = failCount
    /\ TasksAt({"release"})' = TasksAt({"release"}) - 1

\* C13 (as claimed): every ticket acquired is released exactly once by its
\* task, on success and on failure, after the task's counter increment and
\* as the task's final action -- the task ends with the release; no ticket
\* is outstanding when the summary is printed.
C13_ReleaseIsFinalAction ==
    /\ [](TicketsAccounted /\ (pc \in {"summary", "done"} => semaphore = 0))
    /\ [][semaphore' < semaphore =>
             /\ ReleaseFollowsCount
             /\ BagCardinality(tasks') = BagCardinality(tasks) - 1]_vars

\* C13 (amended): every ticket acquired is released exactly once by its
\* task, on success and on failure, after the task's counter increment and
\* before its wg.Done(), which is the task's final action; no ticket is
\* outstanding when the summary is printed.
C13_ReleaseBeforeDone ==
    /\ [](TicketsAccounted /\ (pc \in {"summary", "done"} => semaphore = 0))
    /\ [][semaphore' < semaphore =>
             /\ ReleaseFollowsCount
             /\ BagCardinality(tasks') = BagCardinality(tasks)
             /\ TasksAt({"wgdone"})' = TasksAt({"wgdone"}) + 1
             /\ wg' = wg]_vars
    /\ [][wg' < wg =>
             /\ wg' = wg - 1
             /\ semaphore' = semaphore
             /\ BagCardinality(tasks') = BagCardinality(tasks) - 1
             /\ TasksAt({"wgdone"})' = TasksAt({"wgdone"}) - 1]_vars

\* C13 witness: a task whose call succeeded and one whose call failed have
\* both given their tickets back, and no ticket is held.
C13_Witness ==
    /\ semaphore = 0
    /\ \E t, u \in BagToSet(tasks) :
          /\ t.pc = "wgdone" /\ t.r
          /\ u.pc = "wgdone" /\ ~u.r


\* C14 (as claimed): once the dispatch of an input array has started, with
\* every call returning and the tasks scheduled fairly, the loop does not
\* block forever on a ticket, every element of the input is attempted and the
\* run prints its summary, also for arrays of more than 10 elements.
C14_DispatchCompletes ==
    (pc = "more" /\ env.head = "array")
        ~> (summary.printed /\ Len(launched) = Len(env.elems))

\* the same, for the arrays all of whose elements decode
C14_WellFormedDispatchCompletes ==
    (pc = "more" /\ env.head = "array" /\ MalformedAt = {})
        ~> (summary.printed /\ Len(launched) = Len(env.elems))


\* the token the run's credentials hold: the login reply's token field, or
\* the token file's characters without the white space around them
ExpectedToken ==
    IF env.variant = "login"
    THEN env.login.token
    ELSE SelectSeq(env.tokenFile.bytes, LAMBDA ch : ch \notin {" ", "\n", "\t", "\r"})

\* C15: the bearer token is acquired exactly once, before the first request,
\* and never changes afterwards: every request carries Authorization:
\* Bearer <token> for that token when it is non-empty, and no Authorization
\* header when it is empty.
C15_OneTokenForEveryRequest ==
    /\ loginCalls + tokenReads <= 1
    /\ pc \in {"parseFlags", "credentials"} =>
          bearerToken = <<>> /\ loginCalls + tokenReads = 0
    /\ pc \in {"open", "token", "more", "decode", "wgadd", "acquire", "go",
               "wait", "summary", "done"} =>
          /\ loginCalls + tokenReads = 1
          /\ bearerToken = ExpectedToken
    /\ (tasks # EmptyBag \/ httpCalls # EmptyBag) =>
          loginCalls + tokenReads = 1 /\ bearerToken = ExpectedToken
    /\ \A c \in BagToSet(httpCalls) :
          /\ ExpectedToken # <<>> => c.authorization = <<"Bearer ">> \o ExpectedToken
          /\ ExpectedToken = <<>> => c.authorization = <<>>

\* C15 witness: the token file holds white space only, the token is empty,
\* and both requests of the run went out without an Authorization header.
C15_Witness ==
    /\ env.variant = "tokenfile"
    /\ env.tokenFile.bytes = <<"\n">>
    /\ bearerToken = <<>>
    /\ BagCardinality(httpCalls) = 2
    /\ \A c \in BagToSet(httpCalls) : c.authorization = <<>>


\* C16: main decodes the next element only after the element in hand has got
\* its ticket and its task, so at most one decoded element waits to be
\* launched and at most 11 decoded elements have their outcome not yet
\* counted: 10 with a ticket and the one waiting.
C16_Backpressure ==
    /\ Len(decoded) - Len(launched) <= 1
    /\ pc = "decode" => Len(decoded) = Len(launched)
    /\ Len(decoded) - Len(launched) = 1 <=> pc \in {"wgadd", "acquire", "go"}
    /\ Len(decoded) - (successCount + failCount) <= 11

\* C16 witness: 11 decoded elements are not yet counted: 10 tasks hold the
\* 10 tickets and main waits for a ticket for the 11th, with a 12th element
\* still unread.
C16_Witness ==
    /\ pc = "acquire"
    /\ Len(decoded) - (successCount + failCount) = 11
    /\ Len(decoded) - Len(launched) = 1
    /\ TasksAt({"send", "count"}) = 10
    /\ Len(env.elems) > Len(decoded)


\* C17: every launched task either still holds its ticket or has been
\* counted: the tasks launched are at most successCount + failCount + the
\* tickets held, and those not yet counted all hold a ticket.
C17_LaunchedHeldOrCounted ==
    /\ Len(launched) <= successCount + failCount + semaphore
    /\ TasksAt({"send", "count"}) + successCount + failCount = Len(launched)
    /\ TasksAt({"send", "count"}) <= semaphore

\* C17 witness: of three launched tasks one is in its call, one has counted
\* and still holds its ticket, one has counted and released it.
C17_Witness ==
    /\ Len(launched) = 3
    /\ TasksAt({"send"}) = 1
    /\ TasksAt({"release"}) = 1
    /\ TasksAt({"wgdone"}) = 1
    /\ successCount + failCount = 2
    /\ semaphore = 2

====
